---- MODULE Spec2Model ----
(***************************************************************************)
(* Synapse: the /analyze-code webhook (main.py) and the manual test script *)
(* (Bot/test_bot.py).                                                      *)
(*                                                                         *)
(* A request is handled in the steps of process_code_analysis_request:     *)
(* build the ChatOpenAI client, fill the prompt, call the LLM, parse the   *)
(* reply, return.  Several requests may be in flight at once (the handler  *)
(* is a sync FastAPI endpoint, run on a thread pool), so every step is one *)
(* action of one request and the steps of different requests interleave.   *)
(*                                                                         *)
(* A Python dict / JSON object is a function from its keys to values; a    *)
(* value is a pair <<type, text>>, so that "is a str" is decidable.  An    *)
(* optional value is <<>> (absent) or <<x>>.                               *)
(***************************************************************************)
EXTENDS Integers, Sequences, FiniteSets, TLC

\* Number of request slots that may be in flight at the same time.
NumRequests == 2

Reqs == 1..NumRequests

----------------------------------------------------------------------------
\* Values

None == <<>>
Some(x) == <<x>>
IsNone(o) == Len(o) = 0
Get(o) == o[1]

Str(s) == <<"str", s>>
Num(s) == <<"int", s>>
IsStr(v) == v[1] = "str"
Text(v) == v[2]

RequestFields == {"user_query", "code_file_content"}
ResponseFields == {"suggestion", "edited_code"}

\* pydantic v2 validation of a BaseModel whose fields are all required str:
\* every field present and a str (an int is not coerced); extra keys ignored.
ModelValidate(fields, obj) == \A f \in fields : f \in DOMAIN obj /\ IsStr(obj[f])

\* BaseModel.model_dump(): exactly the declared fields.
model_dump(fields, obj) == [f \in fields |-> obj[f]]

\* Variant: the request model only requires the fields to be present.
CodeAnalysisRequestPresenceOnly(obj) == RequestFields \subseteq DOMAIN obj

CodeAnalysisRequest(obj) == ModelValidate(RequestFields, obj)
CodeAnalysisResponse(obj) == ModelValidate(ResponseFields, obj)

ErrorMessage == "Failed to get a valid response from the AI model."
ErrorDict == [error |-> Str(ErrorMessage)]

\* The text used for each field in the inputs that are explored.
FieldText == [user_query |-> "q", code_file_content |-> "c"]

\* The JSON objects with keys among K in which each value is the field's text
\* or a number.
Objects(K) ==
    UNION {{[f \in S |-> IF f \in T THEN Num("7") ELSE Str(FieldText[f])] : T \in SUBSET S}
           : S \in SUBSET K}

\* Inputs: JSON bodies posted to the endpoint (a field may be missing or no
\* string), and dicts passed by a direct caller (a key may be missing).
Bodies == Objects(RequestFields)
Payloads == {d \in Objects(RequestFields) : \A f \in DOMAIN d : IsStr(d[f])}

\* What the LLM endpoint can send back: a text that is no JSON, or a JSON
\* object: one lacking a field, one with a field that is no string, one with
\* both fields, one with both fields and an extra key.
ReplyObjects ==
    {[suggestion |-> Str("s")],
     [suggestion |-> Str("s"), edited_code |-> Num("7")],
     [suggestion |-> Str("s"), edited_code |-> Str("t")],
     [suggestion |-> Str("s2"), edited_code |-> Str("t2"), note |-> Str("n")]}
Replies == {<<"text">>} \cup {<<"json", o>> : o \in ReplyObjects}

\* The process environment after load_dotenv(): no key, only OPENAI_API_KEY,
\* or only NVIDIA_API_KEY (with both set the client uses NVIDIA_API_KEY as it
\* does with that key alone).
EnvKeys == {None, Some("nvapi-key")}
OtherKeys == {None, Some("sk-other")}
Environments ==
    {e \in [NVIDIA_API_KEY : EnvKeys, OPENAI_API_KEY : OtherKeys] :
        IsNone(e.NVIDIA_API_KEY) \/ IsNone(e.OPENAI_API_KEY)}

----------------------------------------------------------------------------
VARIABLES
    env,            \* os.environ after load_dotenv()
    NVIDIA_API_KEY, \* module global of main.py
    app,            \* the FastAPI app: its one route and response model
    pc,             \* per request: where its handling stands
    via,            \* per request: "http" (POST /analyze-code) or "direct"
    body,           \* per request: the JSON body / the dict passed in
    request_data,   \* per request: argument of process_code_analysis_request
    llm,            \* per request: the ChatOpenAI client (its api key)
    prompt,         \* per request: the filled prompt
    reply,          \* per request: what the LLM call returned
    response,       \* per request: the parsed CodeAnalysisResponse
    result,         \* per request: value returned by the processing function
    http,           \* per request: the HTTP response delivered
    invokes,        \* per request: number of chain.invoke calls
    llmCalls,       \* per request: number of requests sent to the LLM
    fs,             \* test script: the files in the working directory
    opened,         \* test script: the path whose file it holds open for writing
    fsBefore,       \* fs as the latest create_sample_files found it
    streak          \* create_sample_files calls since anyone else touched fs (capped)

reqVars == <<pc, via, body, request_data, llm, prompt, reply, response, result,
             http, invokes, llmCalls>>
modVars == <<env, NVIDIA_API_KEY, app>>
fileVars == <<fs, opened, fsBefore, streak>>
vars == <<env, NVIDIA_API_KEY, app, pc, via, body, request_data, llm, prompt,
          reply, response, result, http, invokes, llmCalls, fs, opened, fsBefore,
          streak>>

----------------------------------------------------------------------------
\* main.py, module level

\* os.getenv("NVIDIA_API_KEY")
getenv(e, name) == e[name]

Routes == {"POST /analyze-code"}

InitModule ==
    /\ env \in Environments
    /\ NVIDIA_API_KEY = getenv(env, "NVIDIA_API_KEY")
    /\ app = [routes |-> Routes, response_model |-> "CodeAnalysisResponse"]

InitRequests ==
    /\ pc = [r \in Reqs |-> "idle"]
    /\ via = [r \in Reqs |-> "none"]
    /\ body = [r \in Reqs |-> None]
    /\ request_data = [r \in Reqs |-> None]
    /\ llm = [r \in Reqs |-> None]
    /\ prompt = [r \in Reqs |-> None]
    /\ reply = [r \in Reqs |-> None]
    /\ response = [r \in Reqs |-> None]
    /\ result = [r \in Reqs |-> None]
    /\ http = [r \in Reqs |-> None]
    /\ invokes = [r \in Reqs |-> 0]
    /\ llmCalls = [r \in Reqs |-> 0]

----------------------------------------------------------------------------
\* main.py, process_code_analysis_request

\* ChatOpenAI(api_key=NVIDIA_API_KEY, ...): with api_key None the OpenAI client
\* falls back to OPENAI_API_KEY of the environment, and raises when that is
\* unset too.  The result is the key the client will send, or None (raised).
ChatOpenAI(api_key, e) ==
    IF ~IsNone(api_key) THEN api_key ELSE getenv(e, "OPENAI_API_KEY")

FormatInstructions == "format_instructions(CodeAnalysisResponse)"

\* The statements of the function, in order, and the ones inside try/except.
TryBlock == {"fill", "call", "parse", "dump"}

\* Variant: the except branch calls the chain again instead of returning.
RaiseRetry(r, step) ==
    IF step \in {"call", "parse"}
    THEN /\ result' = result
         /\ pc' = [pc EXCEPT ![r] = "client_built"]
    ELSE IF step \in TryBlock
    THEN /\ result' = [result EXCEPT ![r] = Some(ErrorDict)]
         /\ pc' = [pc EXCEPT ![r] = "returned"]
    ELSE /\ result' = result
         /\ pc' = [pc EXCEPT ![r] = "raised"]

\* except Exception: return {"error": ...}; an exception raised outside the
\* try block leaves the function.
Raise(r, step) ==
    IF step \in TryBlock
    THEN /\ result' = [result EXCEPT ![r] = Some(ErrorDict)]
         /\ pc' = [pc EXCEPT ![r] = "returned"]
    ELSE /\ result' = result
         /\ pc' = [pc EXCEPT ![r] = "raised"]

\* Variant: the client's key is stored back into the module global.
BuildClientCaching(r) ==
    /\ pc[r] = "called"
    /\ LET c == ChatOpenAI(NVIDIA_API_KEY, env) IN
       IF IsNone(c)
       THEN /\ Raise(r, "build")
            /\ UNCHANGED <<llm, NVIDIA_API_KEY>>
       ELSE /\ llm' = [llm EXCEPT ![r] = c]
            /\ NVIDIA_API_KEY' = c
            /\ pc' = [pc EXCEPT ![r] = "client_built"]
            /\ UNCHANGED result
    /\ UNCHANGED <<env, app, fileVars, via, body, request_data, prompt, reply,
                   response, http, invokes, llmCalls>>

\* llm = ChatOpenAI(...), before the try block.
BuildClient(r) ==
    /\ pc[r] = "called"
    /\ LET c == ChatOpenAI(NVIDIA_API_KEY, env) IN
       IF IsNone(c)
       THEN /\ Raise(r, "build")
            /\ UNCHANGED llm
       ELSE /\ llm' = [llm EXCEPT ![r] = c]
            /\ pc' = [pc EXCEPT ![r] = "client_built"]
            /\ UNCHANGED result
    /\ UNCHANGED <<modVars, fileVars, via, body, request_data, prompt, reply,
                   response, http, invokes, llmCalls>>

\* The prompt as filled from the request: str.format puts the text of each
\* value in its placeholder.
FilledPrompt(data) ==
    [system |-> "system_prompt",
     user_query |-> Text(data["user_query"]),
     code_file_content |-> Text(data["code_file_content"]),
     format_instructions |-> FormatInstructions]

\* chain.invoke({...}), first stage: the argument dict is built from
\* request_data (KeyError when a key is missing) and the prompt is filled.
FillPrompt(r) ==
    /\ pc[r] = "client_built"
    /\ LET data == Get(request_data[r]) IN
       IF RequestFields \subseteq DOMAIN data
       THEN /\ prompt' = [prompt EXCEPT ![r] = Some(FilledPrompt(data))]
            /\ invokes' = [invokes EXCEPT ![r] = @ + 1]
            /\ pc' = [pc EXCEPT ![r] = "prompt_filled"]
            /\ UNCHANGED result
       ELSE /\ Raise(r, "fill")
            /\ UNCHANGED <<prompt, invokes>>
    /\ UNCHANGED <<modVars, fileVars, via, body, request_data, llm, reply,
                   response, http, llmCalls>>

\* How one request sent with this key can end, other than by a failure the
\* client retries: the endpoint answers only the NVIDIA key with a reply, and
\* any request can end in an error that is raised.
LLMOutcomes(key) ==
    {<<"raise">>} \cup (IF key = Some("nvapi-key") THEN Replies ELSE {})

\* ChatOpenAI(...) is built without max_retries: the OpenAI client's default
\* applies, and a request that fails with a connection error, a timeout or a
\* 408/409/429/5xx answer is sent again up to this many times.
max_retries == 2

\* Variant: the model is called on the unfilled template.
SendToLLMBeforeFill(r) ==
    /\ pc[r] \in {"client_built", "prompt_filled"}
    /\ llmCalls' = [llmCalls EXCEPT ![r] = @ + 1]
    /\ pc' = [pc EXCEPT ![r] = "calling"]
    /\ UNCHANGED <<modVars, fileVars, via, body, request_data, llm, prompt,
                   reply, response, result, http, invokes>>

\* chain.invoke, second stage: the request to the LLM is sent, and the thread
\* waits for the reply while other requests go on.
SendToLLM(r) ==
    /\ pc[r] = "prompt_filled"
    /\ llmCalls' = [llmCalls EXCEPT ![r] = @ + 1]
    /\ pc' = [pc EXCEPT ![r] = "calling"]
    /\ UNCHANGED <<modVars, fileVars, via, body, request_data, llm, prompt,
                   reply, response, result, http, invokes>>

\* chain.invoke, second stage, inside the client: the request failed in a way
\* the client retries, and it is sent again; the thread waits on.
ResendToLLM(r) ==
    /\ pc[r] = "calling"
    /\ llmCalls[r] <= max_retries
    /\ llmCalls' = [llmCalls EXCEPT ![r] = @ + 1]
    /\ UNCHANGED <<modVars, fileVars, pc, via, body, request_data, llm, prompt,
                   reply, response, result, http, invokes>>

\* chain.invoke, second stage, end of the wait: the reply arrives, or the
\* call raises (an error that is not retried, or the last retry failed).
ReceiveFromLLM(r) ==
    /\ pc[r] = "calling"
    /\ \E o \in LLMOutcomes(llm[r]) :
         /\ reply' = [reply EXCEPT ![r] = Some(o)]
         /\ IF o = <<"raise">>
            THEN Raise(r, "call")
            ELSE /\ pc' = [pc EXCEPT ![r] = "llm_returned"]
                 /\ UNCHANGED result
    /\ UNCHANGED <<modVars, fileVars, via, body, request_data, llm, prompt,
                   response, http, invokes, llmCalls>>

\* Variant: the parser accepts any value for a field that is present.
ParseCoercing(o) ==
    IF o[1] = "json" /\ ResponseFields \subseteq DOMAIN o[2]
    THEN Some(model_dump(ResponseFields, o[2]))
    ELSE None

\* PydanticOutputParser(pydantic_object=CodeAnalysisResponse).parse: the text
\* must be a JSON object that validates as CodeAnalysisResponse.
Parse(o) ==
    IF o[1] = "json" /\ CodeAnalysisResponse(o[2])
    THEN Some(model_dump(ResponseFields, o[2]))
    ELSE None

\* chain.invoke, third stage.
ParseReply(r) ==
    /\ pc[r] = "llm_returned"
    /\ LET p == Parse(Get(reply[r])) IN
       IF IsNone(p)
       THEN /\ Raise(r, "parse")
            /\ UNCHANGED response
       ELSE /\ response' = [response EXCEPT ![r] = p]
            /\ pc' = [pc EXCEPT ![r] = "parsed"]
            /\ UNCHANGED result
    /\ UNCHANGED <<modVars, fileVars, via, body, request_data, llm, prompt,
                   reply, http, invokes, llmCalls>>

\* return response.model_dump()
ReturnDump(r) ==
    /\ pc[r] = "parsed"
    /\ result' = [result EXCEPT ![r] = Some(model_dump(ResponseFields, Get(response[r])))]
    /\ pc' = [pc EXCEPT ![r] = "returned"]
    /\ UNCHANGED <<modVars, fileVars, via, body, request_data, llm, prompt,
                   reply, response, http, invokes, llmCalls>>

----------------------------------------------------------------------------
\* main.py, the webhook endpoint

\* POST /analyze-code arrives with a JSON body.
Post(r) ==
    /\ pc[r] = "idle"
    /\ "POST /analyze-code" \in app.routes
    /\ \E b \in Bodies : body' = [body EXCEPT ![r] = Some(b)]
    /\ via' = [via EXCEPT ![r] = "http"]
    /\ pc' = [pc EXCEPT ![r] = "received"]
    /\ UNCHANGED <<modVars, fileVars, request_data, llm, prompt, reply, response,
                   result, http, invokes, llmCalls>>

\* FastAPI validates the body as the handler's parameter (request:
\* CodeAnalysisRequest): a body that does not validate is answered 422 and the
\* handler is not run; otherwise request_data = request.model_dump() and
\* process_code_analysis_request(request_data) is entered.
ValidateRequest(r) ==
    /\ pc[r] = "received"
    /\ LET b == Get(body[r]) IN
       IF CodeAnalysisRequest(b)
       THEN /\ request_data' = [request_data EXCEPT ![r] = Some(model_dump(RequestFields, b))]
            /\ pc' = [pc EXCEPT ![r] = "called"]
            /\ UNCHANGED http
       ELSE /\ http' = [http EXCEPT ![r] =
                          Some([status |-> "422 Unprocessable Entity",
                                content |-> [detail |-> Str("validation error")]])]
            /\ pc' = [pc EXCEPT ![r] = "responded"]
            /\ UNCHANGED request_data
    /\ UNCHANGED <<modVars, fileVars, via, body, llm, prompt, reply, response,
                   result, invokes, llmCalls>>

InternalServerError ==
    [status |-> "500 Internal Server Error", content |-> [detail |-> Str("Internal Server Error")]]

\* Variant: the return value is sent as it is, without a response model.
serialize_response_unvalidated(value) == [status |-> "200 OK", content |-> value]

\* response_model=CodeAnalysisResponse: the handler's return value is
\* validated and serialised as a CodeAnalysisResponse; a value that does not
\* validate is a ResponseValidationError, answered 500.
serialize_response(value) ==
    IF CodeAnalysisResponse(value)
    THEN [status |-> "200 OK", content |-> model_dump(ResponseFields, value)]
    ELSE InternalServerError

\* handle_code_analysis returns what the processing function returned (or its
\* exception passes through it), and FastAPI sends the response.
Respond(r) ==
    /\ via[r] = "http"
    /\ pc[r] \in {"returned", "raised"}
    /\ http' = [http EXCEPT ![r] =
                  Some(IF pc[r] = "raised" THEN InternalServerError
                       ELSE serialize_response(Get(result[r])))]
    /\ pc' = [pc EXCEPT ![r] = "responded"]
    /\ UNCHANGED <<modVars, fileVars, via, body, request_data, llm, prompt, reply,
                   response, result, invokes, llmCalls>>

----------------------------------------------------------------------------
\* A caller of process_code_analysis_request other than the endpoint

\* process_code_analysis_request(request_data), called with a dict by code
\* that imports main; a key may be missing from the dict.
DirectCall(r) ==
    /\ pc[r] = "idle"
    /\ \E d \in Payloads :
         /\ body' = [body EXCEPT ![r] = Some(d)]
         /\ request_data' = [request_data EXCEPT ![r] = Some(d)]
    /\ via' = [via EXCEPT ![r] = "direct"]
    /\ pc' = [pc EXCEPT ![r] = "called"]
    /\ UNCHANGED <<modVars, fileVars, llm, prompt, reply, response, result, http,
                   invokes, llmCalls>>

\* The caller has the returned value, or the exception.
DirectReturn(r) ==
    /\ via[r] \in {"direct", "script"}
    /\ pc[r] \in {"returned", "raised"}
    /\ pc' = [pc EXCEPT ![r] = "done"]
    /\ UNCHANGED <<modVars, fileVars, via, body, request_data, llm, prompt, reply,
                   response, result, http, invokes, llmCalls>>

\* The request is over; nothing of it is kept.
Forget(r) ==
    /\ pc[r] \in {"responded", "done"}
    /\ pc' = [pc EXCEPT ![r] = "idle"]
    /\ via' = [via EXCEPT ![r] = "none"]
    /\ body' = [body EXCEPT ![r] = None]
    /\ request_data' = [request_data EXCEPT ![r] = None]
    /\ llm' = [llm EXCEPT ![r] = None]
    /\ prompt' = [prompt EXCEPT ![r] = None]
    /\ reply' = [reply EXCEPT ![r] = None]
    /\ response' = [response EXCEPT ![r] = None]
    /\ result' = [result EXCEPT ![r] = None]
    /\ http' = [http EXCEPT ![r] = None]
    /\ invokes' = [invokes EXCEPT ![r] = 0]
    /\ llmCalls' = [llmCalls EXCEPT ![r] = 0]
    /\ UNCHANGED <<modVars, fileVars>>

----------------------------------------------------------------------------
\* Bot/test_bot.py

QUERY_FILE_PATH == "query.txt"
CODE_FILE_PATH == "sample_code.py"
Files == {QUERY_FILE_PATH, CODE_FILE_PATH}

SampleQuery == "This function is hard to read. Can you add type hints and a docstring to explain what it does?"
\* The text of the sample function, between the triple quotes.
SampleCode == "\ndef process_data(user_list, threshold):\n    results = []\n    for user in user_list:\n        if user['age'] > threshold:\n            results.append(user['name'])\n    return results\n"

\* Contents someone else may have put in a file: a short text, one longer
\* than the sample query and shorter than the sample code, and one longer
\* than both samples.
MidText == "0123456789012345678901234567890123456789012345678901234567890123456789012345678901234567890123456789 user notes"
LongText == "01234567890123456789012345678901234567890123456789012345678901234567890123456789012345678901234567890123456789012345678901234567890123456789012345678901234567890123456789012345678901234567890123456789 user notes"
UserContents == {"x", MidText, LongText}

\* Longest run of create_sample_files calls that is counted.
MaxStreak == 2

\* os.path.exists(path)
exists(files, path) == ~IsNone(files[path])

\* open(path, "w"): the file is created, or truncated if it is there.
open_w(files, path) == [files EXCEPT ![path] = Some("")]

\* What a file holds after data is written at its start.
overlay(old, data) ==
    IF Len(old) > Len(data) THEN data \o SubSeq(old, Len(data) + 1, Len(old)) ELSE data

\* f.write(data) and the close at the end of the with block: the buffered
\* data goes to the start of the file that was opened.  If that file was
\* removed from the directory meanwhile, nothing at the path changes.
write_close(files, handle, path, data) ==
    IF handle = Some(path) /\ exists(files, path)
    THEN [files EXCEPT ![path] = Some(overlay(Get(files[path]), data))]
    ELSE files

NoFiles == [f \in Files |-> None]

InitFiles ==
    /\ fs = NoFiles
    /\ opened = None
    /\ fsBefore = NoFiles
    /\ streak = 0

\* Variant: the query file is written without the existence test.
ExistsQueryUnchecked(r) ==
    /\ pc[r] = "idle"
    /\ via' = [via EXCEPT ![r] = "script"]
    /\ pc' = [pc EXCEPT ![r] = "query_missing"]
    /\ fsBefore' = fs
    /\ streak' = IF streak < MaxStreak THEN streak + 1 ELSE streak
    /\ UNCHANGED <<modVars, fs, opened, body, request_data, llm, prompt, reply,
                   response, result, http, invokes, llmCalls>>

\* test_bot_logic calls create_sample_files(), which starts with
\* os.path.exists(QUERY_FILE_PATH).
ExistsQuery(r) ==
    /\ pc[r] = "idle"
    /\ via' = [via EXCEPT ![r] = "script"]
    /\ pc' = [pc EXCEPT ![r] = IF exists(fs, QUERY_FILE_PATH) THEN "query_checked"
                                ELSE "query_missing"]
    /\ fsBefore' = fs
    /\ streak' = IF streak < MaxStreak THEN streak + 1 ELSE streak
    /\ UNCHANGED <<modVars, fs, opened, body, request_data, llm, prompt, reply,
                   response, result, http, invokes, llmCalls>>

\* The query file was found missing: open(QUERY_FILE_PATH, "w"), on the file
\* system as it is by now.
OpenQuery(r) ==
    /\ pc[r] = "query_missing"
    /\ fs' = open_w(fs, QUERY_FILE_PATH)
    /\ opened' = Some(QUERY_FILE_PATH)
    /\ pc' = [pc EXCEPT ![r] = "query_opened"]
    /\ UNCHANGED <<modVars, fsBefore, streak, via, body, request_data, llm, prompt,
                   reply, response, result, http, invokes, llmCalls>>

\* f.write(<sample query>) and the end of the with block.
CloseQuery(r) ==
    /\ pc[r] = "query_opened"
    /\ fs' = write_close(fs, opened, QUERY_FILE_PATH, SampleQuery)
    /\ opened' = None
    /\ pc' = [pc EXCEPT ![r] = "query_checked"]
    /\ UNCHANGED <<modVars, fsBefore, streak, via, body, request_data, llm, prompt,
                   reply, response, result, http, invokes, llmCalls>>

\* os.path.exists(CODE_FILE_PATH)
ExistsCode(r) ==
    /\ pc[r] = "query_checked"
    /\ pc' = [pc EXCEPT ![r] = IF exists(fs, CODE_FILE_PATH) THEN "files_created"
                                ELSE "code_missing"]
    /\ UNCHANGED <<modVars, fileVars, via, body, request_data, llm, prompt, reply,
                   response, result, http, invokes, llmCalls>>

\* The code file was found missing: open(CODE_FILE_PATH, "w").
OpenCode(r) ==
    /\ pc[r] = "code_missing"
    /\ fs' = open_w(fs, CODE_FILE_PATH)
    /\ opened' = Some(CODE_FILE_PATH)
    /\ pc' = [pc EXCEPT ![r] = "code_opened"]
    /\ UNCHANGED <<modVars, fsBefore, streak, via, body, request_data, llm, prompt,
                   reply, response, result, http, invokes, llmCalls>>

\* f.write(<sample code>) and the end of the with block; create_sample_files
\* returns.
CloseCode(r) ==
    /\ pc[r] = "code_opened"
    /\ fs' = write_close(fs, opened, CODE_FILE_PATH, SampleCode)
    /\ opened' = None
    /\ pc' = [pc EXCEPT ![r] = "files_created"]
    /\ UNCHANGED <<modVars, fsBefore, streak, via, body, request_data, llm, prompt,
                   reply, response, result, http, invokes, llmCalls>>

\* with open(QUERY_FILE_PATH, "r") as f: user_query = f.read(); on
\* FileNotFoundError the function prints and returns.
ReadQuery(r) ==
    /\ pc[r] = "files_created"
    /\ IF exists(fs, QUERY_FILE_PATH)
       THEN /\ body' = [body EXCEPT ![r] = Some([user_query |-> Str(Get(fs[QUERY_FILE_PATH]))])]
            /\ pc' = [pc EXCEPT ![r] = "query_read"]
       ELSE /\ pc' = [pc EXCEPT ![r] = "done"]
            /\ UNCHANGED body
    /\ UNCHANGED <<modVars, fileVars, via, request_data, llm, prompt, reply,
                   response, result, http, invokes, llmCalls>>

\* with open(CODE_FILE_PATH, "r") as f: code_content = f.read(); then the
\* payload with both keys is built and process_code_analysis_request(payload)
\* is called.
ReadCodeAndCall(r) ==
    /\ pc[r] = "query_read"
    /\ IF exists(fs, CODE_FILE_PATH)
       THEN LET payload == [user_query |-> Get(body[r])["user_query"],
                            code_file_content |-> Str(Get(fs[CODE_FILE_PATH]))] IN
            /\ body' = [body EXCEPT ![r] = Some(payload)]
            /\ request_data' = [request_data EXCEPT ![r] = Some(payload)]
            /\ pc' = [pc EXCEPT ![r] = "called"]
       ELSE /\ pc' = [pc EXCEPT ![r] = "done"]
            /\ UNCHANGED <<body, request_data>>
    /\ UNCHANGED <<modVars, fileVars, via, llm, prompt, reply, response, result,
                   http, invokes, llmCalls>>

\* Someone else writes a file of the working directory (in place, if it is
\* there), at any moment.
UserWrite ==
    /\ \E f \in Files, c \in UserContents : fs' = [fs EXCEPT ![f] = Some(c)]
    /\ fsBefore' = NoFiles
    /\ streak' = 0
    /\ UNCHANGED <<modVars, reqVars, opened>>

\* Someone else removes a file of the working directory; a file the script
\* holds open lives on outside the directory.
UserDelete ==
    /\ \E f \in Files :
         /\ exists(fs, f)
         /\ fs' = [fs EXCEPT ![f] = None]
         /\ opened' = IF opened = Some(f) THEN None ELSE opened
    /\ fsBefore' = NoFiles
    /\ streak' = 0
    /\ UNCHANGED <<modVars, reqVars>>

----------------------------------------------------------------------------
Init == InitModule /\ InitRequests /\ InitFiles

Next ==
    \E r \in Reqs :
        \/ Post(r)
        \/ ValidateRequest(r)
        \/ DirectCall(r)
        \/ BuildClient(r)
        \/ FillPrompt(r)
        \/ SendToLLM(r)
        \/ ResendToLLM(r)
        \/ ReceiveFromLLM(r)
        \/ ParseReply(r)
        \/ ReturnDump(r)
        \/ Respond(r)
        \/ DirectReturn(r)
        \/ Forget(r)

Spec == Init /\ [][Next]_vars

\* The test script is a process of its own, running one test_bot_logic at a
\* time, beside whatever happens to the files of its directory.
ScriptRun == CHOOSE r \in Reqs : \A q \in Reqs : r <= q

NextFiles ==
    \/ ExistsQuery(ScriptRun)
    \/ OpenQuery(ScriptRun)
    \/ CloseQuery(ScriptRun)
    \/ ExistsCode(ScriptRun)
    \/ OpenCode(ScriptRun)
    \/ CloseCode(ScriptRun)
    \/ ReadQuery(ScriptRun)
    \/ ReadCodeAndCall(ScriptRun)
    \/ BuildClient(ScriptRun)
    \/ FillPrompt(ScriptRun)
    \/ SendToLLM(ScriptRun)
    \/ ResendToLLM(ScriptRun)
    \/ ReceiveFromLLM(ScriptRun)
    \/ ParseReply(ScriptRun)
    \/ ReturnDump(ScriptRun)
    \/ DirectReturn(ScriptRun)
    \/ Forget(ScriptRun)
    \/ UserWrite
    \/ UserDelete

SpecFiles == Init /\ [][NextFiles]_vars

----------------------------------------------------------------------------
\* Properties

\* The processing function was entered for r / has ended for r.
Entered(r) == ~IsNone(request_data[r])
Ended(r) == Entered(r) /\ pc[r] \in {"returned", "raised", "responded", "done"}

\* The LLM call of r returned a reply / raised.
CallReturned(r) == ~IsNone(reply[r]) /\ Get(reply[r]) # <<"raise">>
CallRaised(r) == reply[r] = Some(<<"raise">>)

\* The reply of r is a JSON object with both fields of CodeAnalysisResponse,
\* each a string.
ReplyWellFormed(r) ==
    /\ CallReturned(r)
    /\ Get(reply[r])[1] = "json"
    /\ LET o == Get(reply[r])[2] IN
         /\ "suggestion" \in DOMAIN o /\ o["suggestion"][1] = "str"
         /\ "edited_code" \in DOMAIN o /\ o["edited_code"][1] = "str"

\* The body of r has both fields of CodeAnalysisRequest, each a string.
BodyWellFormed(r) ==
    LET b == Get(body[r]) IN
        /\ "user_query" \in DOMAIN b /\ b["user_query"][1] = "str"
        /\ "code_file_content" \in DOMAIN b /\ b["code_file_content"][1] = "str"

IsErrorResult(r) ==
    result[r] = Some([error |-> <<"str", "Failed to get a valid response from the AI model.">>])

\* C1: every failure while the processing function handles a request is
\* surfaced as the generic error dict: once the function has ended it has
\* returned a value (no exception left it), and the error dict unless the
\* reply was parsed.
C1_EveryFailureIsGenericError ==
    \A r \in Reqs :
        Ended(r) => /\ pc[r] # "raised"
                    /\ ~IsNone(result[r])
                    /\ (IsNone(response[r]) => IsErrorResult(r))

\* C2: every response the endpoint delivers as a success has exactly the
\* string fields suggestion and edited_code.
C2_SuccessHasBothFields ==
    \A r \in Reqs :
        (~IsNone(http[r]) /\ Get(http[r]).status = "200 OK") =>
            LET c == Get(http[r]).content IN
                /\ DOMAIN c = {"suggestion", "edited_code"}
                /\ c["suggestion"][1] = "str"
                /\ c["edited_code"][1] = "str"

\* One request was answered 200 and another, whose LLM call or parse failed,
\* was answered too.
C2_Witness ==
    \E r1, r2 \in Reqs :
        /\ ~IsNone(http[r1]) /\ Get(http[r1]).status = "200 OK"
        /\ pc[r2] = "responded" /\ IsErrorResult(r2) /\ ~IsNone(reply[r2])

\* C3: when the LLM call or the parse failed during a POST, the client
\* receives the generic error dict of the processing function.
C3_ClientReceivesGenericError ==
    \A r \in Reqs :
        (via[r] = "http" /\ pc[r] = "responded" /\ ~IsNone(reply[r]) /\ IsNone(response[r]))
            => Get(http[r]).content = Get(result[r])

\* C4, as claimed: a request causes at most one call to the external LLM.
C4_AtMostOneCall == \A r \in Reqs : llmCalls[r] <= 1

\* C4, amended: the source invokes the chain at most once for a request and
\* never again after a failure; the client sends the LLM at most 1 + 2
\* requests within that one invoke; once a reply or an error has come back
\* the LLM is not called again, and a failed call or parse ends in the error
\* dict.
C4_NoRetryInSource ==
    \A r \in Reqs :
        /\ invokes[r] <= 1
        /\ llmCalls[r] <= 3
        /\ llmCalls[r] >= 1 =>
              (invokes[r] = 1 /\ pc[r] \notin {"idle", "received", "called", "client_built",
                                               "prompt_filled"})
        /\ ~IsNone(reply[r]) => (pc[r] # "calling" /\ llmCalls[r] >= 1)
        /\ (CallRaised(r) \/ (CallReturned(r) /\ ~ReplyWellFormed(r) /\ pc[r] # "llm_returned"))
              => IsErrorResult(r)

\* One request ended after its call was sent three times and raised, another
\* after its reply failed to parse.
C4_Witness ==
    \E r1, r2 \in Reqs :
        /\ Ended(r1) /\ CallRaised(r1) /\ llmCalls[r1] = 3 /\ invokes[r1] = 1
        /\ Ended(r2) /\ CallReturned(r2) /\ ~ReplyWellFormed(r2) /\ invokes[r2] = 1

\* C5: with NVIDIA_API_KEY absent the application accepts requests, and a
\* request with both fields fails at the LLM call and ends in the error dict.
C5_MissingKeyFailsAtCall ==
    \A r \in Reqs :
        (IsNone(NVIDIA_API_KEY) /\ Ended(r) /\ BodyWellFormed(r)) =>
            /\ CallRaised(r)
            /\ IsErrorResult(r)

\* C6: the LLM is called only after the prompt was filled from the request's
\* user_query, code_file_content and the format instructions; the reply is
\* parsed only after the call returned; success is returned only after the
\* parse succeeded.
C6_StepOrder ==
    \A r \in Reqs :
        /\ llmCalls[r] > 0 =>
              /\ ~IsNone(prompt[r])
              /\ Get(prompt[r]).user_query = Get(request_data[r])["user_query"][2]
              /\ Get(prompt[r]).code_file_content = Get(request_data[r])["code_file_content"][2]
              /\ Get(prompt[r]).format_instructions = "format_instructions(CodeAnalysisResponse)"
        /\ ~IsNone(response[r]) => (CallReturned(r) /\ llmCalls[r] >= 1)
        /\ (~IsNone(result[r]) /\ ~IsErrorResult(r)) =>
              (~IsNone(response[r]) /\ ReplyWellFormed(r))

\* A request has returned a success.
C6_Witness ==
    \E r \in Reqs : pc[r] = "returned" /\ ~IsNone(result[r]) /\ ~IsErrorResult(r)

\* Two ended requests with the same input and the same LLM outcome have the
\* same result, and the same HTTP response if both came over HTTP.
NoInterference ==
    \A r1, r2 \in Reqs :
        (Ended(r1) /\ Ended(r2) /\ request_data[r1] = request_data[r2]
                   /\ reply[r1] = reply[r2]) =>
            /\ result[r1] = result[r2]
            /\ (pc[r1] = "responded" /\ pc[r2] = "responded") => http[r1] = http[r2]

\* C7: handling requests, overlapping or not, leaves the module-level state
\* unchanged, and a request's result depends only on its own input and on
\* the LLM's reply to it.
C7_NoPersistedState ==
    /\ []NoInterference
    /\ [][env' = env /\ NVIDIA_API_KEY' = NVIDIA_API_KEY /\ app' = app]_vars

\* Two requests overlapped and ended differently.
C7_Witness ==
    \E r1, r2 \in Reqs :
        /\ Ended(r1) /\ Ended(r2)
        /\ ~IsNone(result[r1]) /\ ~IsErrorResult(r1)
        /\ IsErrorResult(r2)

\* C8: a value returned by the processing function is either a dict with
\* exactly suggestion and edited_code, holding the values of the parsed
\* reply, when the call and the parse succeeded, or the dict with exactly
\* the key error otherwise.
C8_TwoShapes ==
    \A r \in Reqs :
        ~IsNone(result[r]) =>
            LET v == Get(result[r]) IN
                IF ReplyWellFormed(r)
                THEN /\ DOMAIN v = {"suggestion", "edited_code"}
                     /\ v["suggestion"] = Get(reply[r])[2]["suggestion"]
                     /\ v["edited_code"] = Get(reply[r])[2]["edited_code"]
                ELSE /\ DOMAIN v = {"error"}
                     /\ IsErrorResult(r)

\* A reply with an extra key was returned as a success, while a reply
\* lacking a field ended in the error dict.
C8_Witness ==
    \E r1, r2 \in Reqs :
        /\ ~IsNone(result[r1]) /\ ReplyWellFormed(r1) /\ "note" \in DOMAIN Get(reply[r1])[2]
        /\ ~IsNone(result[r2]) /\ CallReturned(r2) /\ Get(reply[r2])[1] = "json"
        /\ DOMAIN Get(reply[r2])[2] = {"suggestion"}

\* C9: a POST whose body lacks a field or gives it a non-string value never
\* enters the processing function and never reaches the LLM; it is answered
\* 422.
C9_InvalidBodyRejected ==
    \A r \in Reqs :
        (via[r] = "http" /\ ~BodyWellFormed(r)) =>
            /\ ~Entered(r)
            /\ IsNone(llm[r]) /\ IsNone(prompt[r]) /\ llmCalls[r] = 0
            /\ pc[r] \in {"received", "responded"}
            /\ pc[r] = "responded" => Get(http[r]).status = "422 Unprocessable Entity"

\* A body with a non-string field and a body lacking a field were rejected.
C9_Witness ==
    \E r1, r2 \in Reqs :
        /\ pc[r1] = "responded" /\ via[r1] = "http"
        /\ DOMAIN Get(body[r1]) = {"user_query", "code_file_content"} /\ ~BodyWellFormed(r1)
        /\ pc[r2] = "responded" /\ via[r2] = "http"
        /\ DOMAIN Get(body[r2]) = {"user_query"}

\* create_sample_files has returned in the script's run.
Created ==
    /\ via[ScriptRun] = "script"
    /\ pc[ScriptRun] \notin {"idle", "query_missing", "query_opened", "query_checked",
                              "code_missing", "code_opened"}

\* C10: while nobody else touches the directory, create_sample_files leaves
\* a file that exists as it was, gives a missing file its sample content,
\* each file on its own, and a second call leaves the files as the first did.
C10_CreateOnlyMissing ==
    /\ streak >= 1 =>
          /\ \A f \in Files : ~IsNone(fsBefore[f]) => fs[f] = fsBefore[f]
          /\ Created =>
                /\ IsNone(fsBefore["query.txt"]) =>
                      fs["query.txt"] = <<"This function is hard to read. Can you add type hints and a docstring to explain what it does?">>
                /\ IsNone(fsBefore["sample_code.py"]) =>
                      fs["sample_code.py"] = <<"\ndef process_data(user_list, threshold):\n    results = []\n    for user in user_list:\n        if user['age'] > threshold:\n            results.append(user['name'])\n    return results\n">>
    /\ (streak >= 2 /\ Created) => fs = fsBefore

\* The script ran twice in a row where one file held the user's text and the
\* other was created by the script.
C10_Witness ==
    /\ streak = 2 /\ Created
    /\ fs["query.txt"] = <<"x">>
    /\ fs["sample_code.py"] = <<"\ndef process_data(user_list, threshold):\n    results = []\n    for user in user_list:\n        if user['age'] > threshold:\n            results.append(user['name'])\n    return results\n">>

====
